---- MODULE Spec2Model ----
(***************************************************************************)
(* A model of crawler.py (PieBru/doc_crawler): the crawl loop, the robots  *)
(* permission cache, the link filter, fetch_page, normalize_url,           *)
(* check_for_md_version, the resume loader and the program entry           *)
(* (__main__).                                                             *)
(*                                                                         *)
(* A URL is the record urlparse makes of it:                               *)
(*   host  - the netloc ("" when the URL has none; such a URL also has no  *)
(*           scheme here, every hosted URL is an http(s) URL),             *)
(*   segs  - the path split at "/" (an empty string inside is a "//"),     *)
(*   slash - the path ends in "/",                                         *)
(*   qf    - the URL carries a query, a fragment or path parameters.       *)
(* Two URL strings are equal exactly when their records are.               *)
(***************************************************************************)
EXTENDS Integers, Sequences, FiniteSets, TLC

VARIABLES
  \* configuration (module globals set by __main__ or by the tests)
  BASE_URL, MAX_PAGES, REQUEST_RETRIES, REQUEST_DELAY, URL_PATTERN,
  EXCLUDED_URLS, SKIP_ADJACENT_REPETITIVE_PATHS,
  \* program state
  robot_rules, visited_urls, queue, discovered_pages_for_llms_txt,
  processed_pages_count, pc,
  \* the program entry: the parsed command line, the path of the log the
  \* resume loader reads, the path the logging FileHandler writes to, and the
  \* log files on disk (of each log only the lines that name a URL)
  args, LOG_FILE, log_handler, files,
  \* the environment of the run: what the sites, the robots documents and
  \* the log files can be (fixed by Init, never read by the program)
  env,
  \* observation of the run (what the program did, never read by it)
  obs

config == <<BASE_URL, MAX_PAGES, REQUEST_RETRIES, REQUEST_DELAY, URL_PATTERN,
            EXCLUDED_URLS, SKIP_ADJACENT_REPETITIVE_PATHS, env>>

\* What only __main__ sets.
proc == <<args, LOG_FILE, log_handler>>

main == <<args, LOG_FILE, log_handler, files>>

vars == <<BASE_URL, MAX_PAGES, REQUEST_RETRIES, REQUEST_DELAY, URL_PATTERN,
          EXCLUDED_URLS, SKIP_ADJACENT_REPETITIVE_PATHS,
          robot_rules, visited_urls, queue, discovered_pages_for_llms_txt,
          processed_pages_count, pc, args, LOG_FILE, log_handler, files,
          env, obs>>

-----------------------------------------------------------------------------
(* Bounds of the model *)

MaxBudget == 3

MaxRetries == 2

MaxDelay == 2

MaxLinksPerPage == 2

\* The number of URL-naming lines a log file holds.
MaxLogLines == 2

-----------------------------------------------------------------------------
(* URLs *)

Url(h, s, sl, q) == [host |-> h, segs |-> s, slash |-> sl, qf |-> q]

Range(s) == {s[i] : i \in 1..Len(s)}

\* normalize_url: scheme + "://" + netloc + path.  Query, fragment and
\* parameters are dropped; the netloc is copied as written, letter case
\* included.  A URL with neither scheme nor host comes back as the string
\* "://" + path, which urlparse reads as a URL with no host again whose path
\* is that whole string.  Of a URL without host, segs is the path split at
\* "/" after its leading "/"; a path that starts with ":" has no leading "/"
\* (the empty path and the paths normalize_url makes).
normalize_url(u) ==
  IF u.host # ""
    THEN Url(u.host, u.segs, u.slash, FALSE)
  ELSE IF u.segs = <<>> /\ ~u.slash
    THEN Url("", <<":", "">>, TRUE, FALSE)
  ELSE IF u.segs # <<>> /\ u.segs[1] = ":"
    THEN Url("", <<":", "">> \o u.segs, u.slash, FALSE)
  ELSE Url("", <<":", "", "">> \o u.segs, u.slash, FALSE)

-----------------------------------------------------------------------------
(* Permission cache: get_robots_parser, is_allowed *)

\* What RobotFileParser.read() can meet at https://<domain>/robots.txt:
\*   "raise" - urlopen or decode raises (URLError, timeout, bad bytes),
\*   "401"   - HTTPError 401/403,  "404" - another 4xx,  "500" - a 5xx,
\*   "200"   - a document that disallows nothing for the user agent,
\*   "200a"  - a document with "Disallow: /a" for the user agent.
ReadOutcomes == {"raise", "401", "404", "500", "200", "200a"}

\* A document with "Disallow: /index.html.md" for the user agent.
DisallowsIndexMd == "200m"

\* RobotFileParser(): nothing read yet.  disallowed holds the first path
\* segments the parsed rules disallow.
NewParser ==
  [disallow_all |-> FALSE, allow_all |-> FALSE, last_checked |-> FALSE,
   disallowed |-> {}]

\* parser.read() inside the try of get_robots_parser: the parser as read()
\* leaves it, and whether read() raised.  Only parse() sets last_checked.
ParserRead(p, o) ==
  CASE o = "raise" -> [parser |-> p, raised |-> TRUE]
    [] o = "401"   -> [parser |-> [p EXCEPT !.disallow_all = TRUE], raised |-> FALSE]
    [] o = "404"   -> [parser |-> [p EXCEPT !.allow_all = TRUE], raised |-> FALSE]
    [] o = "500"   -> [parser |-> p, raised |-> FALSE]
    [] o = "200"   -> [parser |-> [p EXCEPT !.last_checked = TRUE], raised |-> FALSE]
    [] o = "200a"  -> [parser |-> [p EXCEPT !.last_checked = TRUE,
                                            !.disallowed = {"a"}],
                       raised |-> FALSE]
    [] o = DisallowsIndexMd ->
                      [parser |-> [p EXCEPT !.last_checked = TRUE,
                                            !.disallowed = {"index.html.md"}],
                       raised |-> FALSE]

\* parser.can_fetch(USER_AGENT, url)
can_fetch(p, u) ==
  IF p.disallow_all THEN FALSE
  ELSE IF p.allow_all THEN TRUE
  ELSE IF ~p.last_checked THEN FALSE
  ELSE ~(Len(u.segs) > 0 /\ u.segs[1] \in p.disallowed)

\* The cache test of get_robots_parser.
MutCachedNever(rules, domain) == FALSE

Cached(rules, domain) == domain \in DOMAIN rules

\* get_robots_parser(domain) when read() meets o: the cache afterwards,
\* whether robots.txt was read, whether the warning was logged, and whether an
\* exception left the function (the except clause catches every Exception).
get_robots_parser(rules, domain, o) ==
  IF Cached(rules, domain)
    THEN [rules |-> rules, read |-> FALSE, warned |-> FALSE, raised |-> FALSE]
    ELSE LET r == ParserRead(NewParser, o)
         IN [rules  |-> [d \in DOMAIN rules \cup {domain} |->
                           IF d = domain THEN r.parser ELSE rules[d]],
             read   |-> TRUE,
             warned |-> r.raised,
             raised |-> FALSE]

\* The netloc test of is_allowed.
MutHasNetlocAlways(u) == TRUE

HasNetloc(u) == u.host # ""

\* is_allowed(url) when a read of robots.txt, if one happens, meets o.
is_allowed(rules, u, o) ==
  IF ~HasNetloc(u)
    THEN [ret |-> FALSE, rules |-> rules, read |-> FALSE, warned |-> FALSE,
          raised |-> FALSE]
    ELSE LET g == get_robots_parser(rules, u.host, o)
         IN [ret    |-> can_fetch(g.rules[u.host], u),
             rules  |-> g.rules,
             read   |-> g.read,
             warned |-> g.warned,
             raised |-> g.raised]

-----------------------------------------------------------------------------
(* fetch_page *)

\* Python's None, where a string is expected and where a URL is.
None == "<None>"

NoUrl == [host |-> "<None>", segs |-> <<>>, slash |-> FALSE, qf |-> FALSE]

\* The characters \s matches and str.strip() trims.
Whitespace == {" ", "\t", "\n", "\r"}

\* A text from its characters.
RECURSIVE Str(_)
Str(cs) == IF cs = <<>> THEN "" ELSE Head(cs) \o Str(Tail(cs))

\* The texts of the model, as character sequences: response bodies and the
\* outputs of extract_main_content.
TextChars ==
  { <<>>,
    <<" ">>,
    <<"b", "o", "d", "y">>,
    <<"\r", "\n", "m", "\r", "\n", "d", " ", "\r", "\n">>,
    <<"m", "a", "i", "n">>,
    <<"a", " ", "\n", "b">> }

\* The characters of a text of the model.
Chars(t) == CHOOSE cs \in TextChars : Str(cs) = t

\* s.replace('\r\n', '\n')
RECURSIVE ReplaceCRLF(_)
ReplaceCRLF(cs) ==
  IF cs = <<>> THEN <<>>
  ELSE IF Len(cs) >= 2 /\ cs[1] = "\r" /\ cs[2] = "\n"
    THEN <<"\n">> \o ReplaceCRLF(SubSeq(cs, 3, Len(cs)))
    ELSE <<cs[1]>> \o ReplaceCRLF(Tail(cs))

\* s.strip(): leading and trailing whitespace removed.
RECURSIVE LStrip(_)
LStrip(cs) ==
  IF cs # <<>> /\ Head(cs) \in Whitespace THEN LStrip(Tail(cs)) ELSE cs

RECURSIVE RStrip(_)
RStrip(cs) ==
  IF cs # <<>> /\ cs[Len(cs)] \in Whitespace
    THEN RStrip(SubSeq(cs, 1, Len(cs) - 1)) ELSE cs

\* re.sub(r'\s+', ' ', s): every run of whitespace becomes one space.
RECURSIVE CollapseWs(_)
CollapseWs(cs) ==
  IF cs = <<>> THEN <<>>
  ELSE IF Head(cs) \in Whitespace
    THEN <<" ">> \o CollapseWs(LStrip(cs))
    ELSE <<Head(cs)>> \o CollapseWs(Tail(cs))

\* The bodies a successful response can carry: text, whitespace only, nothing,
\* text with CRLF line ends and surrounding whitespace.
Bodies == {"body", " ", "", "\r\nm\r\nd \r\n"}

\* `not x` of a string or None.
Falsy(x) == x = None \/ x = ""

\* raw_md_content.replace('\r\n', '\n').strip()
Strip(b) == Str(RStrip(LStrip(ReplaceCRLF(Chars(b)))))

\* re.sub(r'\s+', ' ', main_html_text_content).strip()
MutCollapseKeeps(t) == t

Collapse(t) == Str(RStrip(LStrip(CollapseWs(Chars(t)))))

\* What one requests.get + raise_for_status can do: answer with the body
\* ("ok"), raise a RequestException ("reqexc": network error, timeout, HTTP
\* 4xx/5xx), or raise any other exception ("exc").
AttemptOutcomes == {"ok", "reqexc", "exc"}

Ev(kind, d) == [ev |-> kind, d |-> d]

\* The bound of the for loop: range(REQUEST_RETRIES + 1).
MutAttemptsNoPlusOne(retries) == retries

MaxAttempts(retries) == retries + 1

\* The backoff slept after failed attempt number attempt + 1.
MutBackoffConstant(delay, attempt) == delay

Backoff(delay, attempt) == delay * (attempt + 1)

\* The for loop of fetch_page from iteration `attempt` (0-based) on, with
\* outcomes[i] what attempt i meets and body the text a successful response
\* carries; trace is what was done so far, one "get" per request and one
\* "sleep" per time.sleep with its duration.  Every path returns: both except
\* clauses end in a return or the next iteration, so nothing is raised.
RECURSIVE fetch_loop(_, _, _, _, _, _)
fetch_loop(outcomes, body, retries, delay, attempt, trace) ==
  IF attempt >= MaxAttempts(retries)
    THEN [ret |-> None, attempts |-> attempt, trace |-> trace, raised |-> FALSE]
    ELSE LET o  == outcomes[attempt + 1]
             t1 == Append(trace, Ev("get", 0))
         IN CASE o = "ok" ->
                   [ret |-> body, attempts |-> attempt + 1, trace |-> t1,
                    raised |-> FALSE]
              [] o = "reqexc" ->
                   IF attempt < retries
                     THEN fetch_loop(outcomes, body, retries, delay, attempt + 1,
                                     Append(t1, Ev("sleep", Backoff(delay, attempt))))
                     ELSE [ret |-> None, attempts |-> attempt + 1, trace |-> t1,
                           raised |-> FALSE]
              [] o = "exc" ->
                   [ret |-> None, attempts |-> attempt + 1, trace |-> t1,
                    raised |-> FALSE]

fetch_page(outcomes, body, retries, delay) ==
  fetch_loop(outcomes, body, retries, delay, 0, <<>>)

\* The outcome sequences the environment can present to one fetch_page call.
OutcomeSeqs(retries) == [1..(retries + 1) -> AttemptOutcomes]

-----------------------------------------------------------------------------
(* Link filter: extract_links *)

\* len(abs_url) of a hosted URL: "https://" + host + path.
RECURSIVE SegsLen(_)
SegsLen(segs) ==
  IF segs = <<>> THEN 0 ELSE 1 + Len(Head(segs)) + SegsLen(Tail(segs))

UrlLen(u) == 8 + Len(u.host) + SegsLen(u.segs) + (IF u.slash THEN 1 ELSE 0)

\* MAX_URL_LENGTH, scaled to the model's one-letter segments (2000 in the
\* source, 50 in the tests).
MAX_URL_LENGTH == 25

\* urlparse(abs_url).path.strip('/').split('/'): an empty path splits into
\* one empty string.
PathSplit(u) == IF u.segs = <<>> THEN <<"">> ELSE u.segs

\* [segment for segment in path_segments_raw if segment]
NonEmptySegs(u) == SelectSeq(PathSplit(u), LAMBDA x : x # "")

Count(seq, x) == Cardinality({i \in 1..Len(seq) : seq[i] = x})

\* URL_PATTERN.match(abs_url): the pattern is ^https?://(h1|h2|...), given as
\* the set of hosts it names.
PatternMatch(pattern, u) == u.host \in pattern

\* The adjacent-segment guard finds three adjacent identical non-empty
\* segments (and logs the warning).
HasAdjacentTriple(u) ==
  LET ps == NonEmptySegs(u)
  IN Len(ps) >= 3 /\ \E i \in 1..(Len(ps) - 2) : ps[i] = ps[i+1] /\ ps[i+1] = ps[i+2]

\* Whether the guard drops the link: its `continue` is inside the inner
\* `for i in range(...)` loop, so it goes on to the next i and the link is
\* carried on to the following checks.
AdjacentGuardRejects(skip, u) == FALSE

\* len(abs_url) > MAX_URL_LENGTH
MutTooLongNever(u) == FALSE

TooLong(u) == UrlLen(u) > MAX_URL_LENGTH

\* The heuristic repetition rule.
MutHeuristicAtHalf(u) ==
  LET ps == PathSplit(u)
      n  == Len(ps)
  IN /\ n > 5
     /\ ps[n] # ""
     /\ n >= 3
     /\ ps[n] = ps[n-1] /\ ps[n-1] = ps[n-2]
     /\ Count(ps, ps[n]) >= (n \div 2)

HeuristicRejects(u) ==
  LET ps == PathSplit(u)
      n  == Len(ps)
  IN /\ n > 5
     /\ ps[n] # ""
     /\ n >= 3
     /\ ps[n] = ps[n-1] /\ ps[n-1] = ps[n-2]
     /\ Count(ps, ps[n]) > (n \div 2)

\* fnmatch.fnmatch(abs_url, pattern) for the globs of the model:
\* "*/b" (the URL string ends in "/b") and "*//x/*" (the host is x).
Globs == {"*/b", "*//x/*"}

GlobMatch(u, g) ==
  CASE g = "*/b"    -> u.segs # <<>> /\ u.segs[Len(u.segs)] = "b" /\ ~u.slash /\ ~u.qf
    [] g = "*//x/*" -> u.host = "x" /\ (u.segs # <<>> \/ u.slash)

Excluded(excluded, u) == \E i \in 1..Len(excluded) : GlobMatch(u, excluded[i])

\* abs_url not in visited_urls
MutUnvisitedAlways(l, visited) == TRUE

Unvisited(l, visited) == l \notin visited

\* The links extract_links returns for a page whose anchors resolve (urljoin)
\* to the URLs `anchors`, with the Visited Set `visited`.
extract_links(anchors, visited, pattern, skip, excluded) ==
  {l \in {normalize_url(a) : a \in anchors} :
     /\ PatternMatch(pattern, l)
     /\ Unvisited(l, visited)
     /\ ~AdjacentGuardRejects(skip, l)
     /\ ~TooLong(l)
     /\ ~HeuristicRejects(l)
     /\ ~Excluded(excluded, l)}

-----------------------------------------------------------------------------
(* Content resolver: check_for_md_version and the content choice of crawl *)

\* The candidate check_for_md_version probes: path + "index.html.md" when the
\* path ends in "/", else path + ".md"; query and fragment are kept
\* (_replace(path=...).geturl()).
MdCandidate(u) ==
  IF u.slash
    THEN [u EXCEPT !.segs = Append(u.segs, "index.html.md"), !.slash = FALSE]
    ELSE IF u.segs = <<>>
      THEN [u EXCEPT !.segs = <<".md">>]
      ELSE [u EXCEPT !.segs[Len(u.segs)] = u.segs[Len(u.segs)] \o ".md"]

\* What requests.head can answer: status 200, another status, an exception.
ProbeOutcomes == {"200", "404", "exc"}

\* The test on the answer of the probe: response.status_code == 200 (a
\* RequestException is caught and gives no answer).
MutProbeFoundAnyStatus(probe) == probe # "exc"

ProbeFound(probe) == probe = "200"

check_for_md_version(u, probe) == IF ProbeFound(probe) THEN MdCandidate(u) ELSE NoUrl

\* What extract_main_content(html) can do: give text (its pieces joined by
\* spaces, whitespace inside a piece kept), give nothing, or raise
\* (readability raises Unparseable on a document it cannot parse).
ExtractOutcomes == {"main", "a \nb", "", "raise"}

\* Marks a call crawl did not make for a page.
NotCalled == "<not called>"

\* What the title parse can meet: a title, no title tag (None), an exception.
TitleOutcomes == {"Title", None, "raise"}

\* extract_title_from_html: the exception is caught and None returned.
extract_title_from_html(t) == IF t = "raise" THEN None ELSE t

\* The values fetch_page can return under the configuration.
FetchRets(retries, delay) ==
  {fetch_page(os, b, retries, delay).ret : os \in OutcomeSeqs(retries), b \in Bodies}

\* Content acquisition of crawl for a fetched page (html is truthy): md_url,
\* the content, its source type, and whether extract_main_content raised
\* (nothing in crawl catches it).  probe is what the HEAD request met, md_ret
\* what fetch_page(md_url) returned, ext what extract_main_content did.
\* The record also tells what the two calls met: md_ret is None when
\* fetch_page(md_url) was not called, ext is NotCalled when
\* extract_main_content was not.
Resolve(u, probe, md_ret, ext) ==
  LET md_url  == check_for_md_version(u, probe)
      md_got  == IF md_url = NoUrl THEN None ELSE md_ret
      md_used == ~Falsy(md_got)
      c1      == IF md_used THEN Strip(md_got) ELSE ""
      t1      == IF md_used THEN "md" ELSE ""
  IN IF c1 = ""
       THEN [md_url |-> md_url,
             content_for_full_txt |-> IF ext = "raise" THEN "" ELSE Collapse(ext),
             content_source_type |-> "html",
             raised |-> ext = "raise",
             md_ret |-> md_got, ext |-> ext]
       ELSE [md_url |-> md_url, content_for_full_txt |-> c1,
             content_source_type |-> t1, raised |-> FALSE,
             md_ret |-> md_got, ext |-> NotCalled]

Resolutions(u, retries, delay) ==
  {Resolve(u, probe, md_ret, ext) :
     probe \in env.probes, md_ret \in FetchRets(retries, delay),
     ext \in env.exts}

-----------------------------------------------------------------------------
(* Resume loader: load_processed_urls_from_log *)

LogLine(success, u) == [success |-> success, url |-> u]

\* A log file: missing, or its lines (a "Successfully fetched: <url>" line or
\* any other line), and whether reading it fails part-way.
LogFile(exists, lines, read_error) ==
  [exists |-> exists, lines |-> lines, read_error |-> read_error]

\* success_pattern.search(line): the line has the shape
\* "Successfully fetched: <http(s) URL>".
MutMatchesAnyLine(line) == TRUE

Matches(line) == line.success

\* The loader without the `return set()` of its except clause.
MutLoadKeepsPartial(log) ==
  IF ~log.exists THEN {}
  ELSE {normalize_url(log.lines[i].url) :
          i \in {j \in 1..Len(log.lines) : Matches(log.lines[j])}}

load_processed_urls_from_log(log) ==
  IF ~log.exists THEN {}
  ELSE IF log.read_error THEN {}
  ELSE {normalize_url(log.lines[i].url) :
          i \in {j \in 1..Len(log.lines) : Matches(log.lines[j])}}

-----------------------------------------------------------------------------
(* Log files and their paths *)

\* A path: its directory and its file name.
Path(dir, file) == [dir |-> dir, file |-> file]

NoPath == Path("<None>", "<None>")

\* The log paths of the model: crawler.log in the working directory, in the
\* default output directory of host d, and under an absolute directory.
CwdLog == Path(".", "crawler.log")
OutLog == Path("./output/d", "crawler.log")
AbsLog == Path("/var/log", "crawler.log")

LogPaths == {CwdLog, OutLog, AbsLog}

\* os.path.join(directory, path): an absolute path stays as it is, a relative
\* one is taken under the directory ("." names the working directory).
PathJoin(directory, path) ==
  IF path.dir = "/var/log" THEN path
  ELSE IF directory = "." THEN path
  ELSE Path(directory, path.file)

\* logging.FileHandler(path, mode='w'): the file is created or emptied when
\* the handler is made.
MutTruncateKeeps(fs, path) == fs

Truncate(fs, path) == [fs EXCEPT ![path] = LogFile(TRUE, <<>>, FALSE)]

\* logger.<level>(message) with the handler writing to `handler`: the line is
\* appended to that file; without a file handler nothing is written.
LogTo(fs, handler, line) ==
  IF handler = NoPath THEN fs
  ELSE [fs EXCEPT ![handler].exists = TRUE, ![handler].lines = Append(@, line)]

\* A disk without logs.
NoFiles == [p \in LogPaths |-> LogFile(FALSE, <<>>, FALSE)]

\* The command line of a run that did not come through __main__.
NoArgs == [base_url |-> NoUrl, url_pattern |-> [ok |-> TRUE, hosts |-> {}],
           max_pages |-> 0, request_delay |-> 0, retries |-> 0,
           excluded_url |-> <<>>, skip_adjacent_repetitive_paths |-> FALSE,
           log_file |-> NoPath, output_directory |-> "<None>",
           restart |-> FALSE]

-----------------------------------------------------------------------------
(* The sites, seeds and logs of the model *)

Hosts == {"d", "x"}

UrlRoot  == Url("d", <<>>, TRUE, FALSE)
UrlRootQ == Url("d", <<>>, TRUE, TRUE)
UrlA     == Url("d", <<"a">>, FALSE, FALSE)
UrlAQ    == Url("d", <<"a">>, FALSE, TRUE)
UrlB     == Url("d", <<"b">>, FALSE, FALSE)
UrlX     == Url("x", <<"b">>, FALSE, FALSE)
UrlCCC   == Url("d", <<"c", "c", "c">>, FALSE, FALSE)
UrlC6    == Url("d", <<"c", "c", "c", "c", "c", "c">>, FALSE, FALSE)
UrlLong  == Url("d", <<"e", "e", "e", "e", "e", "e", "e", "e", "f">>, FALSE, FALSE)
UrlNoHost == Url("", <<"a">>, FALSE, FALSE)
UrlIndex  == Url("d", <<"index.html">>, FALSE, FALSE)
UrlABCCC  == Url("d", <<"a", "b", "c", "c", "c">>, FALSE, FALSE)
UrlCC     == Url("d", <<"c", "c", "p">>, FALSE, FALSE)
UrlCSCSC  == Url("d", <<"c", "", "c", "", "c", "p">>, FALSE, FALSE)
UrlMax    == Url("d", <<"e", "e", "e", "e", "e", "e", "e", "f">>, FALSE, FALSE)
UrlD6     == Url("d", <<"a", "b", "c", "d", "d", "d">>, FALSE, FALSE)
UrlZ8     == Url("d", <<"a", "b", "c", "x", "y", "z", "z", "z">>, FALSE, FALSE)

\* The URLs the anchors of a page can resolve to.
Anchors == {UrlRoot, UrlA, UrlAQ, UrlB, UrlX, UrlCCC, UrlC6, UrlLong,
            UrlABCCC, UrlCC, UrlCSCSC, UrlD6, UrlZ8}

\* The values --base-url can have.
Seeds == {UrlRoot, UrlRootQ, UrlA, UrlNoHost}

\* The anchor sets of one page.
AnchorSets == {S \in SUBSET env.anchors : Cardinality(S) <= env.max_links}

Logs ==
  { LogFile(FALSE, <<>>, FALSE),
    LogFile(TRUE, <<LogLine(TRUE, UrlRoot)>>, TRUE),
    LogFile(TRUE, <<LogLine(FALSE, UrlA)>>, FALSE),
    LogFile(TRUE, <<LogLine(TRUE, UrlRoot)>>, FALSE),
    LogFile(TRUE, <<LogLine(TRUE, UrlAQ), LogLine(FALSE, UrlB)>>, FALSE),
    LogFile(TRUE, <<LogLine(TRUE, UrlRoot), LogLine(TRUE, UrlA)>>, FALSE) }

-----------------------------------------------------------------------------
(* crawl *)

\* The orders in which `for link in new_links` can walk the set.
Orders(S) ==
  {f \in [1..Cardinality(S) -> S] : \A i, j \in 1..Cardinality(S) : f[i] = f[j] => i = j}

\* The soft frontier cap: (len(visited_urls) + len(queue)) < MAX_PAGES * 1.5
MutUnderCapAlways(visited, q, max_pages) == TRUE

UnderCap(visited, q, max_pages) ==
  2 * (Cardinality(visited) + Len(q)) < 3 * max_pages

\* The enqueue test: link not in visited_urls and link not in queue.
MutFreshIgnoresVisited(link, visited, q) == link \notin Range(q)

MutFreshIgnoresQueue(link, visited, q) == link \notin visited

Fresh(link, visited, q) == link \notin visited /\ link \notin Range(q)

\* queue.append(link): the link goes to the end of the list, and
\* queue.pop(0) takes from its front.
MutPushFront(q, link) == <<link>> \o q

Push(q, link) == Append(q, link)

\* The enqueue loop of crawl over the links in the order walked.
RECURSIVE Enqueue(_, _, _, _)
Enqueue(order, q, visited, max_pages) ==
  IF order = <<>> THEN q
  ELSE LET link == Head(order)
           q1   == IF Fresh(link, visited, q) /\ UnderCap(visited, q, max_pages)
                     THEN Push(q, link) ELSE q
       IN Enqueue(Tail(order), q1, visited, max_pages)

\* The test that guards the pop: a URL already in the Visited Set is dropped.
MutAlreadyVisitedNever(u, visited) == FALSE

AlreadyVisited(u, visited) == u \in visited

\* The condition of the while loop.
MutLoopCondNoBudget(q, visited, processed, max_pages) == q # <<>>

MutLoopCondOffByOne(q, visited, processed, max_pages) ==
  /\ q # <<>>
  /\ Cardinality(visited) + 1 < max_pages
  /\ processed < max_pages

LoopCond(q, visited, processed, max_pages) ==
  /\ q # <<>>
  /\ Cardinality(visited) < max_pages
  /\ processed < max_pages

Running == pc = "loop" /\ LoopCond(queue, visited_urls, processed_pages_count, MAX_PAGES)

\* The robots.txt outcomes that matter to a query for u: none when the domain
\* is cached or u has no host.
ReadsFor(u) ==
  IF HasNetloc(u) /\ ~Cached(robot_rules, u.host) THEN env.reads ELSE {"200"}

\* The observation after an is_allowed / get_robots_parser result r for host
\* h: one more read of h's robots.txt, and whether that read raised.
NoteRead(o, h, r) ==
  IF r.read
    THEN [o EXCEPT !.robots_reads[h] = @ + 1,
                   !.read_raised = IF r.warned THEN @ \cup {h} ELSE @]
    ELSE o

\* The Visited Set after a robots skip: the URL is not added (the
\* visited_urls.add(url) of that branch is commented out).
MutVisitedAfterSkipAdds(visited, url) == visited \cup {url}

VisitedAfterSkip(visited, url) == visited

\* The Visited Set after the URL passed the robots check: visited_urls.add(url)
MutVisitedAfterDispatchDrops(visited, url) == visited

VisitedAfterDispatch(visited, url) == visited \cup {url}

\* What the loop does after a failed fetch before `continue`:
\* time.sleep(REQUEST_DELAY).
MutNoSleepAfterFailure(delay) == <<>>

SleepAfterFailure(delay) == <<Ev("sleep", delay)>>

\* What the loop does at the end of an iteration that recorded a page:
\* time.sleep(REQUEST_DELAY).
SleepAfterPage(delay) == <<Ev("sleep", delay)>>

\* An HTTP request of the run for page content: requests.get of fetch_page
\* for the page ("fetch") or for its alternate ("md_fetch"), requests.head of
\* check_for_md_version ("probe").
Request(kind, u) == [kind |-> kind, url |-> u]

\* The log of a run that read none.
NoLog == LogFile(FALSE, <<>>, FALSE)

\* The index entry of a Page Record: its link target and the description
\* after "Source" (the title text is left out).
link_url_to_use(page_info) ==
  IF page_info.md_url # NoUrl THEN page_info.md_url ELSE page_info.html_url

IndexEntry(page_info) ==
  [link |-> link_url_to_use(page_info),
   description |-> IF page_info.md_url # NoUrl THEN "Markdown version link"
                                               ELSE "HTML page link"]

\* The Permission Cache as crawl() finds it when it starts: robot_rules is
\* not among the globals crawl() assigns.
MutRulesAtStartCleared(rules) == << >>

RulesAtStart(rules) == rules

\* crawl(restart_mode) up to the while loop.  log is what LOG_FILE holds.
StartCrawl(restart_mode, log) ==
  /\ pc \in {"idle", "done", "main"}
  /\ obs.runs < env.max_runs
  /\ visited_urls' = IF restart_mode THEN load_processed_urls_from_log(log) ELSE {}
  /\ queue' = <<BASE_URL>>
  /\ discovered_pages_for_llms_txt' = <<>>
  /\ processed_pages_count' = 0
  /\ pc' = "loop"
  /\ obs' = [obs EXCEPT !.runs = @ + 1, !.dispatched = <<>>, !.renders = 0,
                        !.restart = restart_mode, !.last_links = {},
                        !.denied = {}, !.failed = {}, !.trace = <<>>,
                        !.acq = <<>>, !.success = {}, !.index = <<>>,
                        !.requests = {},
                        !.log = IF restart_mode THEN log ELSE NoLog]
  /\ robot_rules' = RulesAtStart(robot_rules)
  /\ UNCHANGED <<config, main>>

\* One iteration: the popped URL is already visited.
SkipVisited ==
  /\ Running
  /\ AlreadyVisited(Head(queue), visited_urls)
  /\ queue' = Tail(queue)
  /\ UNCHANGED <<config, main, robot_rules, visited_urls, discovered_pages_for_llms_txt,
                 processed_pages_count, pc, obs>>

\* One iteration: is_allowed denies the popped URL.
SkipRobots ==
  /\ Running
  /\ ~AlreadyVisited(Head(queue), visited_urls)
  /\ \E o \in ReadsFor(Head(queue)) :
       LET url == Head(queue)
           r   == is_allowed(robot_rules, url, o)
       IN /\ ~r.ret
          /\ robot_rules' = r.rules
          /\ obs' = [NoteRead(obs, url.host, r) EXCEPT !.denied = @ \cup {url}]
  /\ visited_urls' = VisitedAfterSkip(visited_urls, Head(queue))
  /\ queue' = Tail(queue)
  /\ files' = LogTo(files, log_handler, LogLine(FALSE, Head(queue)))
  /\ UNCHANGED <<config, proc, discovered_pages_for_llms_txt,
                 processed_pages_count, pc>>

\* One iteration: the URL is dispatched and fetch_page returns nothing.
FetchFailed ==
  /\ Running
  /\ ~AlreadyVisited(Head(queue), visited_urls)
  /\ \E o \in ReadsFor(Head(queue)) :
       LET url == Head(queue)
           r   == is_allowed(robot_rules, url, o)
       IN /\ r.ret
          /\ robot_rules' = r.rules
          /\ obs' = [NoteRead(obs, url.host, r) EXCEPT
                       !.dispatched = Append(@, url),
                       !.failed = @ \cup {url},
                       !.requests = @ \cup {Request("fetch", url)},
                       !.trace = @ \o <<Ev("fetch", 0)>>
                                   \o SleepAfterFailure(REQUEST_DELAY)]
  /\ \E html \in FetchRets(REQUEST_RETRIES, REQUEST_DELAY) : Falsy(html)
  /\ visited_urls' = VisitedAfterDispatch(visited_urls, Head(queue))
  /\ queue' = Tail(queue)
  /\ files' = LogTo(files, log_handler, LogLine(FALSE, Head(queue)))
  /\ UNCHANGED <<config, proc, discovered_pages_for_llms_txt,
                 processed_pages_count, pc>>

\* One iteration: the URL is dispatched and fetched; the page is resolved and
\* recorded, its links filtered and enqueued.  When extract_main_content
\* raises, the exception leaves crawl: nothing is recorded or rendered.
FetchedPage ==
  /\ Running
  /\ ~AlreadyVisited(Head(queue), visited_urls)
  /\ \E html \in FetchRets(REQUEST_RETRIES, REQUEST_DELAY) : ~Falsy(html)
  /\ \E o \in ReadsFor(Head(queue)), title \in env.titles,
        res \in Resolutions(Head(queue), REQUEST_RETRIES, REQUEST_DELAY),
        anchors \in AnchorSets :
       LET url     == Head(queue)
           r       == is_allowed(robot_rules, url, o)
           visited == VisitedAfterDispatch(visited_urls, url)
           links   == extract_links(anchors, visited, URL_PATTERN,
                                    SKIP_ADJACENT_REPETITIVE_PATHS, EXCLUDED_URLS)
           page_title == extract_title_from_html(title)
           o1      == [NoteRead(obs, url.host, r) EXCEPT
                         !.dispatched = Append(@, url),
                         !.success = @ \cup {url},
                         !.requests = @ \cup
                           {Request("fetch", url), Request("probe", MdCandidate(url))}
                           \cup (IF res.md_url # NoUrl
                                   THEN {Request("md_fetch", res.md_url)} ELSE {}),
                         !.trace = @ \o <<Ev("fetch", 0), Ev("probe", 0)>>
                                     \o (IF res.md_url # NoUrl
                                           THEN <<Ev("md_fetch", 0)>> ELSE <<>>)]
       IN /\ r.ret
          /\ robot_rules' = r.rules
          /\ visited_urls' = visited
          /\ IF res.raised
               THEN /\ pc' = "crashed"
                    /\ queue' = Tail(queue)
                    /\ obs' = o1
                    /\ UNCHANGED <<discovered_pages_for_llms_txt, processed_pages_count>>
               ELSE /\ pc' = pc
                    /\ discovered_pages_for_llms_txt' =
                         Append(discovered_pages_for_llms_txt,
                                [title |-> IF page_title = None THEN "<url>"
                                                                     ELSE page_title,
                                 html_url |-> url,
                                 md_url |-> res.md_url,
                                 content_for_full_txt |-> res.content_for_full_txt,
                                 content_source_type |-> res.content_source_type])
                    /\ \E order \in Orders(links) :
                         queue' = Enqueue(order, Tail(queue), visited, MAX_PAGES)
                    /\ processed_pages_count' = processed_pages_count + 1
                    /\ obs' = [o1 EXCEPT
                                 !.last_links = links,
                                 !.trace = @ \o SleepAfterPage(REQUEST_DELAY),
                                 !.acq = Append(@, [probe |-> IF res.md_url = NoUrl
                                                                THEN "none" ELSE "200",
                                                    md_ret |-> res.md_ret,
                                                    ext |-> res.ext,
                                                    title |-> title])]
  /\ files' = LogTo(files, log_handler, LogLine(TRUE, Head(queue)))
  /\ UNCHANGED <<config, proc>>

\* The while condition is false: the loop ends (pbar.close()).
ExitLoop ==
  /\ pc = "loop"
  /\ ~LoopCond(queue, visited_urls, processed_pages_count, MAX_PAGES)
  /\ pc' = "render"
  /\ UNCHANGED <<config, main, robot_rules, visited_urls, queue,
                 discovered_pages_for_llms_txt, processed_pages_count, obs>>

\* The two output files are written; open(OUTPUT_FILE, 'w') raises when the
\* output directory cannot be written to.
Render ==
  /\ pc = "render"
  /\ IF env.outdir = "readonly"
       THEN /\ pc' = "render_failed"
            /\ obs' = obs
       ELSE /\ pc' = "done"
            /\ obs' = [obs EXCEPT
                         !.renders = @ + 1,
                         !.index = [i \in 1..Len(discovered_pages_for_llms_txt) |->
                                      IndexEntry(discovered_pages_for_llms_txt[i])]]
  /\ UNCHANGED <<config, main, robot_rules, visited_urls, queue,
                 discovered_pages_for_llms_txt, processed_pages_count>>

-----------------------------------------------------------------------------
(* Specifications *)

\* The last direct call of is_allowed / get_robots_parser: its argument, what
\* it returned or did, and whether the domain was cached before it.
NoCall == [called |-> FALSE, url |-> NoUrl, ret |-> FALSE, read |-> FALSE,
           warned |-> FALSE, raised |-> FALSE, cached_before |-> FALSE]

\* The last direct call of fetch_page: what the attempts met and what it did.
NoFetch == [called |-> FALSE, outcomes |-> <<>>, body |-> "", ret |-> None,
            attempts |-> 0, trace |-> <<>>, raised |-> FALSE]

\* The last direct call of extract_links: the URLs the anchors of the page
\* resolve to and the set returned.
NoLinks == [called |-> FALSE, anchors |-> {}, ret |-> {}]

\* The last direct call of load_processed_urls_from_log.
NoLoad == [called |-> FALSE, log |-> NoLog, ret |-> {}]

\* The last direct call of normalize_url: its argument, what it returned, and
\* whether the argument was what the call before it returned.
NoNormalize == [called |-> FALSE, url |-> NoUrl, ret |-> NoUrl, again |-> FALSE]

\* The last direct call of check_for_md_version: its argument, what the HEAD
\* request met, the URL it was sent to and what the function returned.
NoProbe == [called |-> FALSE, url |-> NoUrl, probe |-> "", requested |-> NoUrl,
            ret |-> NoUrl]

InitObs ==
  [dispatched |-> <<>>, robots_reads |-> [h \in Hosts \cup {""} |-> 0],
   read_raised |-> {}, runs |-> 0, renders |-> 0, restart |-> FALSE,
   last_links |-> {}, denied |-> {}, failed |-> {}, trace |-> <<>>,
   acq |-> <<>>, success |-> {}, prev_success |-> {}, index |-> <<>>,
   log |-> NoLog, ia |-> NoCall, fp |-> NoFetch, el |-> NoLinks, ll |-> NoLoad,
   nu |-> NoNormalize, md |-> NoProbe, requests |-> {}]

\* The module as loaded: empty cache, empty per-crawl state.
InitState ==
  /\ robot_rules = << >>
  /\ visited_urls = {}
  /\ queue = <<>>
  /\ discovered_pages_for_llms_txt = <<>>
  /\ processed_pages_count = 0
  /\ pc = "idle"
  /\ args = NoArgs
  /\ LOG_FILE = CwdLog
  /\ log_handler = NoPath
  /\ files = NoFiles
  /\ obs = InitObs

\* Crawls of sites whose pages link among a few URLs of two hosts, fetched
\* under any page budget up to MaxBudget from any seed, fresh or resumed.
Init ==
  /\ BASE_URL \in Seeds
  /\ MAX_PAGES \in 0..MaxBudget
  /\ REQUEST_RETRIES = 1
  /\ REQUEST_DELAY = 1
  /\ URL_PATTERN \in {{"d"}, {"d", "x"}}
  /\ EXCLUDED_URLS = <<>>
  /\ SKIP_ADJACENT_REPETITIVE_PATHS = FALSE
  /\ env = [anchors   |-> {UrlRoot, UrlA, UrlAQ, UrlB, UrlX},
            max_links |-> MaxLinksPerPage,
            reads     |-> ReadOutcomes,
            probes    |-> {"404"},
            exts      |-> {"main", "raise"},
            titles    |-> {"Title"},
            logs      |-> Logs,
            outdir    |-> "writable",
            max_runs  |-> 1]
  /\ InitState

Next ==
  \/ \E restart_mode \in BOOLEAN, log \in env.logs : StartCrawl(restart_mode, log)
  \/ SkipVisited
  \/ SkipRobots
  \/ FetchFailed
  \/ FetchedPage
  \/ ExitLoop
  \/ Render

Spec == Init /\ [][Next]_vars

\* The loop is single-threaded and every step of it returns: a crawl that
\* can take a step takes it.
FairSpec == Spec /\ WF_vars(Next)

-----------------------------------------------------------------------------
(* crawl over pages of every kind of content *)

\* Crawls from the root of a site whose pages link to the root and to its
\* index.html, where the probe, the alternate fetch, the extraction and the
\* title parse can each go every way.
InitContent ==
  /\ BASE_URL = UrlRoot
  /\ MAX_PAGES \in 1..2
  /\ REQUEST_RETRIES = 1
  /\ REQUEST_DELAY = 1
  /\ URL_PATTERN = {"d"}
  /\ EXCLUDED_URLS = <<>>
  /\ SKIP_ADJACENT_REPETITIVE_PATHS = FALSE
  /\ env = [anchors   |-> {UrlRoot, UrlIndex},
            max_links |-> 1,
            reads     |-> {"200", "401"},
            probes    |-> ProbeOutcomes,
            exts      |-> ExtractOutcomes,
            titles    |-> TitleOutcomes,
            logs      |-> {LogFile(FALSE, <<>>, FALSE),
                           LogFile(TRUE, <<LogLine(TRUE, UrlRoot)>>, FALSE)},
            outdir    |-> "writable",
            max_runs  |-> 1]
  /\ InitState

SpecContent == InitContent /\ [][Next]_vars

FairSpecContent == SpecContent /\ WF_vars(Next)

-----------------------------------------------------------------------------
(* crawl over a site whose links meet every rule of the link filter *)

\* Crawls from the root of a site whose pages link to URLs in and out of
\* scope, with a query, of the greatest length allowed and longer, under
\* exclusion globs and a robots policy that denies one of them.
InitFrontier ==
  /\ BASE_URL = UrlRoot
  /\ MAX_PAGES \in 2..MaxBudget
  /\ REQUEST_RETRIES = 1
  /\ REQUEST_DELAY = 1
  /\ URL_PATTERN \in {{"d"}, {"d", "x"}}
  /\ EXCLUDED_URLS \in {<<>>, <<"*/b">>}
  /\ SKIP_ADJACENT_REPETITIVE_PATHS = FALSE
  /\ env = [anchors   |-> {UrlA, UrlAQ, UrlB, UrlX, UrlLong, UrlMax},
            max_links |-> MaxLinksPerPage,
            reads     |-> {"200", "200a"},
            probes    |-> {"404"},
            exts      |-> {"main"},
            titles    |-> {"Title"},
            logs      |-> {LogFile(TRUE, <<LogLine(TRUE, UrlRoot)>>, FALSE)},
            outdir    |-> "writable",
            max_runs  |-> 1]
  /\ InitState

SpecFrontier == InitFrontier /\ [][Next]_vars

-----------------------------------------------------------------------------
(* crawl called twice in one process (as the tests do) *)

\* Two crawl() calls, each fresh or resumed, from the root of a site whose
\* pages link to the root and to /a, under any robots document.
InitAgain ==
  /\ BASE_URL = UrlRoot
  /\ MAX_PAGES \in 1..2
  /\ REQUEST_RETRIES = 1
  /\ REQUEST_DELAY = 1
  /\ URL_PATTERN = {"d"}
  /\ EXCLUDED_URLS = <<>>
  /\ SKIP_ADJACENT_REPETITIVE_PATHS = FALSE
  /\ env = [anchors   |-> {UrlRoot, UrlA},
            max_links |-> 1,
            reads     |-> {"200", "200a", "raise"},
            probes    |-> {"404"},
            exts      |-> {"main"},
            titles    |-> {"Title"},
            logs      |-> {LogFile(FALSE, <<>>, FALSE),
                           LogFile(TRUE, <<LogLine(TRUE, UrlA)>>, FALSE),
                           LogFile(TRUE, <<LogLine(TRUE, UrlRoot)>>, FALSE)},
            outdir    |-> "writable",
            max_runs  |-> 2]
  /\ InitState

SpecAgain == InitAgain /\ [][Next]_vars

-----------------------------------------------------------------------------
(* crawl under robots documents that tell pages and alternates apart *)

\* Crawls from the root of a site whose pages link to the root and to /a,
\* where the probe can go every way and robots.txt can disallow nothing, /a,
\* or /index.html.md.
InitPolite ==
  /\ BASE_URL = UrlRoot
  /\ MAX_PAGES \in 1..2
  /\ REQUEST_RETRIES = 1
  /\ REQUEST_DELAY = 1
  /\ URL_PATTERN = {"d"}
  /\ EXCLUDED_URLS = <<>>
  /\ SKIP_ADJACENT_REPETITIVE_PATHS = FALSE
  /\ env = [anchors   |-> {UrlRoot, UrlA},
            max_links |-> 1,
            reads     |-> {"200", "200a", DisallowsIndexMd},
            probes    |-> ProbeOutcomes,
            exts      |-> {"main"},
            titles    |-> {"Title"},
            logs      |-> {LogFile(TRUE, <<LogLine(TRUE, UrlRoot)>>, FALSE)},
            outdir    |-> "writable",
            max_runs  |-> 1]
  /\ InitState

SpecPolite == InitPolite /\ [][Next]_vars

-----------------------------------------------------------------------------
(* The permission cache called directly (as the tests do) *)

CallIsAllowed(u) ==
  /\ pc = "idle"
  /\ \E o \in ReadsFor(u) :
       LET r == is_allowed(robot_rules, u, o)
       IN /\ robot_rules' = r.rules
          /\ obs' = [NoteRead(obs, u.host, r) EXCEPT
                      !.ia = [called |-> TRUE, url |-> u, ret |-> r.ret,
                              read |-> r.read, warned |-> r.warned,
                              raised |-> r.raised,
                              cached_before |-> Cached(robot_rules, u.host)]]
  /\ UNCHANGED <<config, main, visited_urls, queue, discovered_pages_for_llms_txt,
                 processed_pages_count, pc>>

CallGetRobotsParser(domain) ==
  /\ pc = "idle"
  /\ \E o \in ReadsFor(Url(domain, <<>>, FALSE, FALSE)) :
       LET r == get_robots_parser(robot_rules, domain, o)
       IN /\ robot_rules' = r.rules
          /\ obs' = [NoteRead(obs, domain, r) EXCEPT
                      !.ia = [called |-> TRUE, url |-> Url(domain, <<>>, FALSE, FALSE),
                              ret |-> FALSE, read |-> r.read, warned |-> r.warned,
                              raised |-> r.raised,
                              cached_before |-> Cached(robot_rules, domain)]]
  /\ UNCHANGED <<config, main, visited_urls, queue, discovered_pages_for_llms_txt,
                 processed_pages_count, pc>>

\* The URLs is_allowed is asked about.
QueryUrls == {UrlRoot, UrlA, UrlAQ, UrlB, UrlX, UrlNoHost,
              Url("", <<>>, FALSE, FALSE)}

InitRobots ==
  /\ BASE_URL = UrlRoot
  /\ MAX_PAGES = MaxBudget
  /\ REQUEST_RETRIES = 1
  /\ REQUEST_DELAY = 1
  /\ URL_PATTERN = {"d", "x"}
  /\ EXCLUDED_URLS = <<>>
  /\ SKIP_ADJACENT_REPETITIVE_PATHS = FALSE
  /\ env = [anchors   |-> {},
            max_links |-> 0,
            reads     |-> ReadOutcomes,
            probes    |-> ProbeOutcomes,
            exts      |-> ExtractOutcomes,
            titles    |-> {"Title", None},
            logs      |-> Logs,
            outdir    |-> "writable",
            max_runs  |-> 0]
  /\ InitState

NextRobots ==
  \/ \E u \in QueryUrls : CallIsAllowed(u)
  \/ \E domain \in Hosts : CallGetRobotsParser(domain)

SpecRobots == InitRobots /\ [][NextRobots]_vars

-----------------------------------------------------------------------------
(* fetch_page called directly *)

CallFetchPage ==
  /\ pc = "idle"
  /\ \E os \in OutcomeSeqs(REQUEST_RETRIES), b \in Bodies :
       LET r == fetch_page(os, b, REQUEST_RETRIES, REQUEST_DELAY)
       IN obs' = [obs EXCEPT
                    !.fp = [called |-> TRUE, outcomes |-> os, body |-> b,
                            ret |-> r.ret, attempts |-> r.attempts,
                            trace |-> r.trace, raised |-> r.raised]]
  /\ UNCHANGED <<config, main, robot_rules, visited_urls, queue,
                 discovered_pages_for_llms_txt, processed_pages_count, pc>>

InitFetch ==
  /\ BASE_URL = UrlRoot
  /\ MAX_PAGES = MaxBudget
  /\ REQUEST_RETRIES \in 0..MaxRetries
  /\ REQUEST_DELAY \in 0..MaxDelay
  /\ URL_PATTERN = {"d", "x"}
  /\ EXCLUDED_URLS = <<>>
  /\ SKIP_ADJACENT_REPETITIVE_PATHS = FALSE
  /\ env = [anchors   |-> {},
            max_links |-> 0,
            reads     |-> ReadOutcomes,
            probes    |-> ProbeOutcomes,
            exts      |-> ExtractOutcomes,
            titles    |-> {"Title", None},
            logs      |-> Logs,
            outdir    |-> "writable",
            max_runs  |-> 0]
  /\ InitState

NextFetch == CallFetchPage

SpecFetch == InitFetch /\ [][NextFetch]_vars

-----------------------------------------------------------------------------
(* extract_links called directly (as the tests do, with visited_urls set) *)

CallExtractLinks ==
  /\ pc = "idle"
  /\ \E anchors \in AnchorSets :
       obs' = [obs EXCEPT
                 !.el = [called |-> TRUE, anchors |-> anchors,
                         ret |-> extract_links(anchors, visited_urls, URL_PATTERN,
                                               SKIP_ADJACENT_REPETITIVE_PATHS,
                                               EXCLUDED_URLS)]]
  /\ UNCHANGED <<config, main, robot_rules, visited_urls, queue,
                 discovered_pages_for_llms_txt, processed_pages_count, pc>>

\* Pages whose anchors resolve to any of the URLs of the model, filtered under
\* every pattern, guard setting and exclusion list, with any Visited Set.
InitLinks ==
  /\ BASE_URL = UrlRoot
  /\ MAX_PAGES = MaxBudget
  /\ REQUEST_RETRIES = 1
  /\ REQUEST_DELAY = 1
  /\ URL_PATTERN \in {{"d"}, {"d", "x"}}
  /\ EXCLUDED_URLS \in {<<>>, <<"*/b">>, <<"*//x/*", "*/b">>}
  /\ SKIP_ADJACENT_REPETITIVE_PATHS \in BOOLEAN
  /\ env = [anchors   |-> Anchors,
            max_links |-> MaxLinksPerPage,
            reads     |-> {"200"},
            probes    |-> {"404"},
            exts      |-> {"main"},
            titles    |-> {"Title"},
            logs      |-> {LogFile(FALSE, <<>>, FALSE)},
            outdir    |-> "writable",
            max_runs  |-> 0]
  /\ robot_rules = << >>
  /\ visited_urls \in SUBSET {UrlRoot, UrlA, UrlAQ, UrlB}
  /\ queue = <<>>
  /\ discovered_pages_for_llms_txt = <<>>
  /\ processed_pages_count = 0
  /\ pc = "idle"
  /\ args = NoArgs
  /\ LOG_FILE = CwdLog
  /\ log_handler = NoPath
  /\ files = NoFiles
  /\ obs = InitObs

NextLinks == CallExtractLinks

SpecLinks == InitLinks /\ [][NextLinks]_vars

-----------------------------------------------------------------------------
(* The program entry: __main__ *)

\* The output directory when --output-directory is not given:
\* os.path.join("./output", fqdn), "unknown_site" for a seed without a host.
OutputDirectoryDefault(base_url) ==
  "./output/" \o (IF base_url.host = "" THEN "unknown_site" ELSE base_url.host)

\* __main__ up to the call of crawl(), in a new process (module state as
\* loaded).  The file handler is made first and empties its file; an invalid
\* --url-pattern makes re.compile raise and an output directory that cannot
\* be created makes os.makedirs raise, both before crawl() is called.
MainSetup(restart) ==
  /\ pc \in {"idle", "exited", "crashed"}
  /\ obs.runs < env.max_runs
  /\ LET a   == [args EXCEPT !.restart = restart]
         dir == IF a.output_directory # "<None>"
                  THEN a.output_directory
                  ELSE OutputDirectoryDefault(a.base_url)
     IN /\ args' = a
        /\ log_handler' = a.log_file
        /\ files' = Truncate(files, a.log_file)
        /\ BASE_URL' = a.base_url
        /\ IF ~a.url_pattern.ok
             THEN /\ pc' = "fatal"
                  /\ LOG_FILE' = a.log_file
                  /\ UNCHANGED <<URL_PATTERN, MAX_PAGES, REQUEST_RETRIES,
                                 REQUEST_DELAY, EXCLUDED_URLS,
                                 SKIP_ADJACENT_REPETITIVE_PATHS>>
             ELSE /\ URL_PATTERN' = a.url_pattern.hosts
                  /\ IF env.outdir = "uncreatable"
                       THEN /\ pc' = "fatal"
                            /\ LOG_FILE' = a.log_file
                            /\ UNCHANGED <<MAX_PAGES, REQUEST_RETRIES,
                                           REQUEST_DELAY, EXCLUDED_URLS,
                                           SKIP_ADJACENT_REPETITIVE_PATHS>>
                       ELSE /\ pc' = "main"
                            /\ LOG_FILE' = PathJoin(dir, a.log_file)
                            /\ REQUEST_DELAY' = a.request_delay
                            /\ REQUEST_RETRIES' = a.retries
                            /\ EXCLUDED_URLS' = a.excluded_url
                            /\ MAX_PAGES' = a.max_pages
                            /\ SKIP_ADJACENT_REPETITIVE_PATHS' =
                                 a.skip_adjacent_repetitive_paths
  /\ robot_rules' = << >>
  /\ visited_urls' = {}
  /\ queue' = <<>>
  /\ discovered_pages_for_llms_txt' = <<>>
  /\ processed_pages_count' = 0
  /\ obs' = [obs EXCEPT !.prev_success = obs.success,
                        !.success = {},
                        !.dispatched = <<>>,
                        !.robots_reads = [h \in Hosts \cup {""} |-> 0],
                        !.read_raised = {}]
  /\ UNCHANGED env

\* crawl(restart_mode=args.restart), with LOG_FILE as the disk holds it.
MainCrawl ==
  /\ pc = "main"
  /\ StartCrawl(args.restart, files[LOG_FILE])

\* crawl() returned: the last log line is written and the process ends.
MainExit ==
  /\ pc = "done"
  /\ pc' = "exited"
  /\ UNCHANGED <<config, main, robot_rules, visited_urls, queue,
                 discovered_pages_for_llms_txt, processed_pages_count, obs>>

\* The command lines of the model: crawls of host d from its root.
CommandLines ==
  {[base_url |-> UrlRoot, url_pattern |-> [ok |-> ok, hosts |-> {"d"}],
    max_pages |-> m, request_delay |-> 1, retries |-> 1,
    excluded_url |-> <<>>, skip_adjacent_repetitive_paths |-> FALSE,
    log_file |-> lf, output_directory |-> od, restart |-> FALSE] :
     ok \in BOOLEAN, m \in 1..2, lf \in {CwdLog, AbsLog}, od \in {"<None>", "."}}

\* Up to two program runs, one after the other, with the same command line
\* but for --restart, on a disk that may hold a log in the output directory,
\* whose output directory is writable, read-only or cannot be created.
InitMain ==
  /\ BASE_URL = UrlRoot
  /\ MAX_PAGES = MaxBudget
  /\ REQUEST_RETRIES = 1
  /\ REQUEST_DELAY = 1
  /\ URL_PATTERN = {"d"}
  /\ EXCLUDED_URLS = <<>>
  /\ SKIP_ADJACENT_REPETITIVE_PATHS = FALSE
  /\ \E o \in {"writable", "readonly", "uncreatable"} :
       env = [anchors   |-> {UrlRoot, UrlA},
              max_links |-> 1,
              reads     |-> {"200", "401"},
              probes    |-> {"404"},
              exts      |-> {"main", "raise"},
              titles    |-> {"Title"},
              logs      |-> {NoLog},
              outdir    |-> o,
              max_runs  |-> 2]
  /\ robot_rules = << >>
  /\ visited_urls = {}
  /\ queue = <<>>
  /\ discovered_pages_for_llms_txt = <<>>
  /\ processed_pages_count = 0
  /\ pc = "idle"
  /\ args \in CommandLines
  /\ LOG_FILE = CwdLog
  /\ log_handler = NoPath
  /\ files \in {NoFiles,
                 [NoFiles EXCEPT ![OutLog] =
                    LogFile(TRUE, <<LogLine(TRUE, UrlRoot)>>, FALSE)]}
  /\ obs = InitObs

NextMain ==
  \/ \E restart \in BOOLEAN : MainSetup(restart)
  \/ MainCrawl
  \/ SkipVisited
  \/ SkipRobots
  \/ FetchFailed
  \/ FetchedPage
  \/ ExitLoop
  \/ Render
  \/ MainExit

SpecMain == InitMain /\ [][NextMain]_vars

-----------------------------------------------------------------------------
(* load_processed_urls_from_log called directly (as the tests do) *)

\* Every log of up to MaxLogLines lines, each a success line or another line
\* naming one of four URLs, readable or failing while read; and no log.
LogLines == {LogLine(b, u) : b \in BOOLEAN, u \in {UrlRoot, UrlA, UrlAQ, UrlB}}

AllLogs ==
  {NoLog} \cup
  {LogFile(TRUE, lines, e) :
     lines \in UNION {[1..n -> LogLines] : n \in 0..MaxLogLines}, e \in BOOLEAN}

CallLoadLog ==
  /\ pc = "idle"
  /\ \E log \in env.logs :
       obs' = [obs EXCEPT !.ll = [called |-> TRUE, log |-> log,
                                  ret |-> load_processed_urls_from_log(log)]]
  /\ UNCHANGED <<config, main, robot_rules, visited_urls, queue,
                 discovered_pages_for_llms_txt, processed_pages_count, pc>>

InitLog ==
  /\ BASE_URL = UrlRoot
  /\ MAX_PAGES = MaxBudget
  /\ REQUEST_RETRIES = 1
  /\ REQUEST_DELAY = 1
  /\ URL_PATTERN = {"d"}
  /\ EXCLUDED_URLS = <<>>
  /\ SKIP_ADJACENT_REPETITIVE_PATHS = FALSE
  /\ env = [anchors   |-> {},
            max_links |-> 0,
            reads     |-> {"200"},
            probes    |-> {"404"},
            exts      |-> {"main"},
            titles    |-> {"Title"},
            logs      |-> AllLogs,
            outdir    |-> "writable",
            max_runs  |-> 0]
  /\ InitState

NextLog == CallLoadLog

SpecLog == InitLog /\ [][NextLog]_vars

-----------------------------------------------------------------------------
(* normalize_url and check_for_md_version called directly (as the tests do) *)

\* The longest path normalize_url is called with.
MaxSegs == 8

UrlUpper   == Url("D", <<"P">>, FALSE, FALSE)
UrlUpperQ  == Url("D", <<"P">>, FALSE, TRUE)
UrlLower   == Url("d", <<"P">>, FALSE, FALSE)
UrlBare    == Url("d", <<>>, FALSE, FALSE)
UrlDir     == Url("d", <<"s">>, TRUE, FALSE)
UrlRelRoot == Url("", <<>>, TRUE, FALSE)
UrlEmpty   == Url("", <<>>, FALSE, FALSE)

\* The URLs normalize_url is called with: absolute ones with and without
\* query, with the host in either letter case, and ones with no scheme and no
\* host ("/a", "/", "").
NormalizeInputs == {UrlRoot, UrlRootQ, UrlA, UrlAQ, UrlBare, UrlDir, UrlUpper,
                    UrlUpperQ, UrlLower, UrlNoHost, UrlRelRoot, UrlEmpty}

\* The page URLs check_for_md_version is called with.
ProbeInputs == {UrlRoot, UrlA, UrlAQ, UrlIndex, UrlDir, UrlBare}

\* normalize_url(u), with u an input or what the last call returned.
CallNormalizeUrl ==
  /\ pc = "idle"
  /\ \E u \in NormalizeInputs \cup (IF obs.nu.called THEN {obs.nu.ret} ELSE {}) :
       /\ Len(u.segs) <= MaxSegs
       /\ obs' = [obs EXCEPT
                    !.nu = [called |-> TRUE, url |-> u, ret |-> normalize_url(u),
                            again |-> obs.nu.called /\ u = obs.nu.ret]]
  /\ UNCHANGED <<config, main, robot_rules, visited_urls, queue,
                 discovered_pages_for_llms_txt, processed_pages_count, pc>>

\* check_for_md_version(u) when the HEAD request meets probe.
CallCheckForMdVersion ==
  /\ pc = "idle"
  /\ \E u \in ProbeInputs, probe \in env.probes :
       obs' = [obs EXCEPT
                 !.md = [called |-> TRUE, url |-> u, probe |-> probe,
                         requested |-> MdCandidate(u),
                         ret |-> check_for_md_version(u, probe)]]
  /\ UNCHANGED <<config, main, robot_rules, visited_urls, queue,
                 discovered_pages_for_llms_txt, processed_pages_count, pc>>

InitUrl ==
  /\ BASE_URL = UrlRoot
  /\ MAX_PAGES = MaxBudget
  /\ REQUEST_RETRIES = 1
  /\ REQUEST_DELAY = 1
  /\ URL_PATTERN = {"d"}
  /\ EXCLUDED_URLS = <<>>
  /\ SKIP_ADJACENT_REPETITIVE_PATHS = FALSE
  /\ env = [anchors   |-> {},
            max_links |-> 0,
            reads     |-> {"200"},
            probes    |-> ProbeOutcomes,
            exts      |-> {"main"},
            titles    |-> {"Title"},
            logs      |-> {LogFile(FALSE, <<>>, FALSE)},
            outdir    |-> "writable",
            max_runs  |-> 0]
  /\ InitState

NextUrl ==
  \/ CallNormalizeUrl
  \/ CallCheckForMdVersion

SpecUrl == InitUrl /\ [][NextUrl]_vars

-----------------------------------------------------------------------------
(* Claims *)

Dispatched == Range(obs.dispatched)

\* C1: within one crawl() run no two URLs dispatched for fetching have the
\* same normalize_url form, whatever the seed URL.
C1_AtMostOncePerNormalizedUrl ==
  \A i, j \in 1..Len(obs.dispatched) :
    normalize_url(obs.dispatched[i]) = normalize_url(obs.dispatched[j]) => i = j

\* C2: crawl() always terminates: a crawl whose loop has started reaches the
\* render step.
C2_ReachesRender == (pc = "loop") ~> (pc = "render")

\* C3: the loop stops as soon as the Frontier is empty, budget reached or not;
\* once MAX_PAGES pages are processed it stops with whatever the Frontier
\* holds and dispatches no further fetch, and the links discovered on the
\* page that reached the budget are never fetched.
C3_StopsAtEmptyFrontierAndBudget ==
  /\ [](processed_pages_count <= MAX_PAGES)
  /\ []((processed_pages_count >= MAX_PAGES /\ MAX_PAGES > 0)
          => obs.last_links \cap Dispatched = {})
  /\ [][(pc = "loop" /\ (queue = <<>> \/ processed_pages_count >= MAX_PAGES))
          => (pc' = "render" /\ obs'.dispatched = obs.dispatched)]_vars
  /\ [][(pc \in {"render", "done"}) => (obs'.dispatched = obs.dispatched)]_vars

C3_Witness ==
  /\ pc = "done"
  /\ MAX_PAGES > 0
  /\ processed_pages_count = MAX_PAGES
  /\ queue # <<>>
  /\ Range(queue) \cap obs.last_links # {}

\* C4 as claimed: whenever the loop exits, the Frontier is empty or the
\* processed-page counter has reached the page budget.
C4_ExitOnlyEmptyOrProcessed ==
  [][(pc = "loop" /\ pc' = "render")
       => (queue = <<>> \/ processed_pages_count >= MAX_PAGES)]_vars

\* C4 as amended: whenever the loop exits, the Frontier is empty, or the
\* processed-page counter has reached the page budget, or the size of the
\* Visited Set has reached the page budget.
C4_ExitEmptyOrProcessedOrVisited ==
  [][(pc = "loop" /\ pc' = "render")
       => \/ queue = <<>>
          \/ processed_pages_count >= MAX_PAGES
          \/ Cardinality(visited_urls) >= MAX_PAGES]_vars

C4_Witness ==
  /\ pc = "render"
  /\ queue # <<>>
  /\ processed_pages_count < MAX_PAGES
  /\ ~obs.restart
  /\ Cardinality(visited_urls) = MAX_PAGES

\* C5: a URL that is_allowed denied is never fetched, is not in the Visited
\* Set and has no Page Record; the step that skips it pops it and leaves the
\* loop running.
C5_DeniedUrlSkipped ==
  /\ [](\A u \in obs.denied :
          /\ u \notin Dispatched
          /\ u \notin visited_urls
          /\ \A i \in 1..Len(discovered_pages_for_llms_txt) :
               discovered_pages_for_llms_txt[i].html_url # u)
  /\ [][(obs'.denied # obs.denied /\ pc = "loop")
          => (/\ pc' = "loop"
              /\ obs'.denied = obs.denied \cup {Head(queue)}
              /\ queue' = Tail(queue)
              /\ obs'.dispatched = obs.dispatched
              /\ discovered_pages_for_llms_txt' = discovered_pages_for_llms_txt)]_vars

C5_Witness ==
  /\ obs.denied # {}
  /\ \E i \in 1..Len(obs.dispatched) : \E u \in obs.denied :
       /\ u.host = obs.dispatched[i].host
       /\ i > 1

\* C6: when the read of a domain's robots document raised, the domain is
\* cached with a permissive policy: is_allowed returns True for every URL of
\* that host.
C6_PermissiveAfterFailedRead ==
  \A h \in obs.read_raised :
    /\ h \in DOMAIN robot_rules
    /\ \A u \in QueryUrls : u.host = h => is_allowed(robot_rules, u, "200").ret

\* C7: the robots document of a domain is read at most once: the first query
\* makes the cache entry (also when the read failed), later queries leave the
\* entry as it is and read nothing, and each domain has its own entry and read.
C7_RobotsReadOncePerDomain ==
  /\ [](\A h \in Hosts : /\ obs.robots_reads[h] <= 1
                         /\ (obs.robots_reads[h] = 1 <=> h \in DOMAIN robot_rules))
  /\ [](obs.ia.called /\ HasNetloc(obs.ia.url)
          => (obs.ia.read <=> ~obs.ia.cached_before))
  /\ [][(\A h \in DOMAIN robot_rules :
           /\ h \in DOMAIN robot_rules'
           /\ robot_rules'[h] = robot_rules[h]
           /\ obs'.robots_reads[h] = obs.robots_reads[h])]_vars

C7_Witness ==
  /\ DOMAIN robot_rules = Hosts
  /\ "d" \in obs.read_raised
  /\ obs.ia.called /\ obs.ia.cached_before /\ ~obs.ia.read
  /\ obs.ia.url.host = "d"

\* C8: is_allowed returns False for a URL without a host, reads no robots
\* document for it and makes no cache entry.
C8_NoHostDenied ==
  /\ "" \notin DOMAIN robot_rules
  /\ obs.robots_reads[""] = 0
  /\ (obs.ia.called /\ ~HasNetloc(obs.ia.url)) => (~obs.ia.ret /\ ~obs.ia.read)

C8_Witness ==
  /\ obs.ia.called
  /\ obs.ia.url = UrlNoHost
  /\ "d" \in DOMAIN robot_rules

\* The first attempt (1-based) that does not meet a RequestException, or 0.
FirstNonTransport(os) ==
  IF \A i \in 1..Len(os) : os[i] = "reqexc" THEN 0
  ELSE CHOOSE i \in 1..Len(os) :
         os[i] # "reqexc" /\ \A j \in 1..(i - 1) : os[j] = "reqexc"

\* C9: fetch_page never raises and makes at most REQUEST_RETRIES + 1
\* attempts: the body at the first successful attempt, None after exactly
\* REQUEST_RETRIES + 1 transport errors, None right after an unexpected
\* exception.
C9_FetchPageAttempts ==
  obs.fp.called =>
    LET os == obs.fp.outcomes
        k  == FirstNonTransport(os)
    IN /\ ~obs.fp.raised
       /\ obs.fp.attempts <= REQUEST_RETRIES + 1
       /\ Len(os) = REQUEST_RETRIES + 1
       /\ k = 0 => (obs.fp.ret = None /\ obs.fp.attempts = REQUEST_RETRIES + 1)
       /\ (k > 0 /\ os[k] = "ok") => (obs.fp.ret = obs.fp.body /\ obs.fp.attempts = k)
       /\ (k > 0 /\ os[k] = "exc") => (obs.fp.ret = None /\ obs.fp.attempts = k)

C9_Witness ==
  /\ obs.fp.called
  /\ REQUEST_RETRIES = 2
  /\ obs.fp.outcomes = <<"reqexc", "reqexc", "reqexc">>
  /\ obs.fp.ret = None
  /\ obs.fp.attempts = 3

Sleeps(t) == {i \in 1..Len(t) : t[i].ev = "sleep"}

\* C10: the backoff is linear: attempts and sleeps alternate, the sleep after
\* the n-th failed attempt lasts REQUEST_DELAY * n, nothing is slept after the
\* last attempt, and a fully failing fetch sleeps REQUEST_RETRIES times.
C10_LinearBackoff ==
  obs.fp.called =>
    LET t == obs.fp.trace
        n == obs.fp.attempts
    IN /\ Len(t) = 2 * n - 1
       /\ \A i \in 1..Len(t) :
            IF i % 2 = 1 THEN t[i].ev = "get"
            ELSE t[i].ev = "sleep" /\ t[i].d = REQUEST_DELAY * (i \div 2)
       /\ Cardinality(Sleeps(t)) = n - 1
       /\ (\A i \in 1..Len(obs.fp.outcomes) : obs.fp.outcomes[i] = "reqexc")
            => Cardinality(Sleeps(t)) = REQUEST_RETRIES

C10_Witness ==
  /\ obs.fp.called
  /\ REQUEST_RETRIES = 2
  /\ REQUEST_DELAY = 2
  /\ obs.fp.trace = <<Ev("get", 0), Ev("sleep", 2), Ev("get", 0), Ev("sleep", 4),
                      Ev("get", 0)>>
  /\ obs.fp.ret = None

\* C11: when the fetch of a dispatched URL fails completely, the URL stays in
\* the Visited Set, no Page Record is appended for it, nothing is enqueued, the
\* processed-page counter is unchanged and the loop goes on.
C11_FailedFetchContinues ==
  /\ [](\A u \in obs.failed :
          /\ u \in visited_urls
          /\ \A i \in 1..Len(discovered_pages_for_llms_txt) :
               discovered_pages_for_llms_txt[i].html_url # u)
  /\ [][(obs'.failed # obs.failed /\ pc = "loop")
          => (/\ pc' = "loop"
              /\ obs'.failed = obs.failed \cup {Head(queue)}
              /\ Head(queue) \in visited_urls'
              /\ queue' = Tail(queue)
              /\ discovered_pages_for_llms_txt' = discovered_pages_for_llms_txt
              /\ processed_pages_count' = processed_pages_count)]_vars

C11_Witness ==
  /\ Len(obs.dispatched) = 3
  /\ obs.dispatched[2] \in obs.failed
  /\ obs.dispatched[3] \notin obs.failed

\* The positions of the page fetches in the trace of the loop.
Fetches(t) == {i \in 1..Len(t) : t[i].ev = "fetch"}

\* C12: between any two page fetches of the loop there is a sleep of
\* REQUEST_DELAY, and while crawl has not been left by an exception every
\* dispatched URL, fetched or failed, has been followed by one.
C12_DelayAfterEveryDispatch ==
  LET t == obs.trace
  IN /\ \A i, j \in Fetches(t) :
          i < j => \E k \in (i + 1)..(j - 1) : t[k] = Ev("sleep", REQUEST_DELAY)
     /\ (pc # "crashed" /\ t # <<>>) => t[Len(t)] = Ev("sleep", REQUEST_DELAY)
     /\ Cardinality(Fetches(t)) = Len(obs.dispatched)

C12_Witness ==
  /\ pc = "done"
  /\ Len(obs.dispatched) = 3
  /\ obs.dispatched[2] \in obs.failed
  /\ Cardinality(Sleeps(obs.trace)) = 3

\* The Page Records and what was met while each was made.
Pages == discovered_pages_for_llms_txt

\* C13: a page whose alternate Markdown URL was found and whose alternate
\* fetch returned a body is recorded with that body, CRLF replaced by LF and
\* trimmed, with kind 'md' and md_url the alternate URL, and the HTML
\* extraction is not run.
C13_AlternateUsed ==
  \A i \in 1..Len(Pages) :
    (obs.acq[i].probe = "200" /\ ~Falsy(obs.acq[i].md_ret)) =>
      /\ obs.acq[i].md_ret = "body" => Pages[i].content_for_full_txt = "body"
      /\ obs.acq[i].md_ret = "\r\nm\r\nd \r\n" => Pages[i].content_for_full_txt = "m\nd"
      /\ obs.acq[i].md_ret = " " => Pages[i].content_for_full_txt = ""
      /\ Pages[i].content_source_type = "md"
      /\ Pages[i].md_url = MdCandidate(Pages[i].html_url)
      /\ obs.acq[i].ext = NotCalled

\* C14: a page with no alternate, or whose alternate fetch failed, is recorded
\* with the whitespace-collapsed, trimmed output of the extraction and kind
\* 'html'.
C14_ExtractedFallback ==
  \A i \in 1..Len(Pages) :
    (obs.acq[i].probe = "none" \/ obs.acq[i].md_ret = None) =>
      /\ obs.acq[i].ext \in ExtractOutcomes \ {"raise"}
      /\ obs.acq[i].ext = "main" => Pages[i].content_for_full_txt = "main"
      /\ obs.acq[i].ext = "a \nb" => Pages[i].content_for_full_txt = "a b"
      /\ obs.acq[i].ext = "" => Pages[i].content_for_full_txt = ""
      /\ Pages[i].content_source_type = "html"

C14_Witness ==
  \E i \in 1..Len(Pages) :
    /\ obs.acq[i].probe = "200"
    /\ obs.acq[i].md_ret = None
    /\ obs.acq[i].ext = "a \nb"
    /\ Pages[i].content_for_full_txt = "a b"
    /\ Pages[i].md_url # NoUrl

\* C15: every Page Record whose content is empty has the empty kind.
C15_EmptyContentKindNone ==
  \A i \in 1..Len(Pages) :
    Pages[i].content_for_full_txt = "" => Pages[i].content_source_type = ""

\* C16: a parse failure never aborts the run: crawl is not left by an
\* exception, and a page whose title parse failed is recorded with no title of
\* its own.
C16_ParseFailureNeverAborts ==
  /\ pc # "crashed"
  /\ \A i \in 1..Len(Pages) : obs.acq[i].title = "raise" => Pages[i].title = "<url>"

\* C17: each crawl() call renders exactly once, after the loop has ended, and
\* once rendering has started nothing is fetched, probed or enqueued.
C17_RendersExactlyOnce ==
  /\ [](obs.renders <= 1)
  /\ [](pc = "done" => obs.renders = 1)
  /\ [][(obs'.renders > obs.renders)
          => (/\ pc = "render"
              /\ ~LoopCond(queue, visited_urls, processed_pages_count, MAX_PAGES))]_vars
  /\ [][(pc \in {"render", "done"} /\ pc' # "loop")
          => (/\ obs'.trace = obs.trace
              /\ obs'.dispatched = obs.dispatched
              /\ queue' = queue)]_vars
  /\ (pc = "loop") ~> (obs.renders = 1)

\* C18: no URL appears twice in the rendered index: the link targets of the
\* index entries are pairwise distinct.
C18_IndexTargetsDistinct ==
  (pc \in {"render", "done"}) =>
    \A i, j \in 1..Len(Pages) :
      link_url_to_use(Pages[i]) = link_url_to_use(Pages[j]) => i = j

\* C19: every URL in the final Visited Set equals its own normalize_url
\* result.
C19_VisitedNormalized ==
  (pc \in {"render", "done"}) => \A u \in visited_urls : normalize_url(u) = u

\* C20: extract_links never returns a URL that is in the Visited Set at the
\* time of the call; every URL returned is the normalized form of an anchor,
\* and anchors with the same normalized form yield a single entry.
C20_LinksNotVisited ==
  obs.el.called =>
    /\ obs.el.ret \cap visited_urls = {}
    /\ \A l \in obs.el.ret : \E a \in obs.el.anchors : l = normalize_url(a)
    /\ \A a, b \in obs.el.anchors :
         normalize_url(a) = normalize_url(b) =>
           Cardinality({l \in obs.el.ret : normalize_url(l) = normalize_url(a)}) <= 1

C20_Witness ==
  /\ obs.el.called
  /\ obs.el.anchors = {UrlA, UrlAQ}
  /\ visited_urls = {UrlRoot, UrlAQ, UrlB}
  /\ obs.el.ret = {UrlA}

\* The path has three adjacent identical segments among its non-empty ones.
ThreeAdjacent(u) ==
  LET ps == SelectSeq(u.segs, LAMBDA x : x # "")
  IN \E i \in 1..(Len(ps) - 2) : ps[i] = ps[i + 1] /\ ps[i + 1] = ps[i + 2]

\* The anchors the other rules of the filter let through.
PassesOtherRules(a) ==
  /\ PatternMatch(URL_PATTERN, a)
  /\ a \notin visited_urls
  /\ ~TooLong(a)
  /\ ~HeuristicRejects(a)
  /\ ~Excluded(EXCLUDED_URLS, a)

\* C21: with the adjacent guard enabled extract_links returns no link whose
\* non-empty path segments contain three adjacent identical ones, and returns
\* the links with at most two that the other rules let through.
C21_AdjacentGuardRejects ==
  (obs.el.called /\ SKIP_ADJACENT_REPETITIVE_PATHS) =>
    /\ \A l \in obs.el.ret : ~ThreeAdjacent(l)
    /\ \A a \in obs.el.anchors :
         (~a.qf /\ ~ThreeAdjacent(a) /\ PassesOtherRules(a)) => a \in obs.el.ret

\* The last three segments are identical and the repeated segment makes up
\* more than half of the segments.
RepetitiveTail(u) ==
  LET ps == u.segs
      n  == Len(ps)
  IN /\ n >= 3
     /\ ps[n] # ""
     /\ ps[n] = ps[n - 1] /\ ps[n - 1] = ps[n - 2]
     /\ 2 * Cardinality({i \in 1..n : ps[i] = ps[n]}) > n

\* C22: with the adjacent guard disabled extract_links returns no link whose
\* last three segments are identical with the repeated segment in more than
\* half of the segments, short paths included.
C22_HeuristicRejectsShortPaths ==
  (obs.el.called /\ ~SKIP_ADJACENT_REPETITIVE_PATHS) =>
    \A l \in obs.el.ret : ~RepetitiveTail(l)

\* The lines of a log that have the shape "Successfully fetched: <url>".
SuccessLines(log) == {i \in 1..Len(log.lines) : log.lines[i].success}

\* C23: load_processed_urls_from_log returns exactly the URLs of the
\* "Successfully fetched: <url>" lines, each without its query and fragment,
\* and no URL of any other line.
C23_LoaderReturnsSuccessUrls ==
  (obs.ll.called /\ obs.ll.log.exists /\ ~obs.ll.log.read_error) =>
    obs.ll.ret = {[obs.ll.log.lines[i].url EXCEPT !.qf = FALSE] :
                    i \in SuccessLines(obs.ll.log)}

C23_Witness ==
  /\ obs.ll.called
  /\ obs.ll.log = LogFile(TRUE, <<LogLine(TRUE, UrlAQ), LogLine(FALSE, UrlB)>>, FALSE)
  /\ obs.ll.ret = {UrlA}

\* A log that is missing, fails while read, or has no success line.
Degenerate(log) == ~log.exists \/ log.read_error \/ SuccessLines(log) = {}

\* C24: with a missing, unreadable or success-free resume log a restart run
\* starts fresh from the seed with an empty Visited Set, also when the read
\* failed after success lines.
C24_DegenerateLogStartsFresh ==
  /\ [][(pc # "loop" /\ pc' = "loop" /\ obs'.restart /\ Degenerate(obs'.log))
          => (/\ visited_urls' = {}
              /\ queue' = <<BASE_URL>>
              /\ discovered_pages_for_llms_txt' = <<>>)]_vars
  /\ []((obs.restart /\ Degenerate(obs.log) /\ pc \in {"render", "done"}
           /\ MAX_PAGES > 0 /\ HasNetloc(BASE_URL) /\ obs.denied = {})
          => (obs.dispatched # <<>> /\ obs.dispatched[1] = BASE_URL))

C24_Witness ==
  /\ pc = "done"
  /\ obs.restart
  /\ obs.log = LogFile(TRUE, <<LogLine(TRUE, UrlRoot)>>, TRUE)
  /\ BASE_URL = UrlRoot
  /\ obs.dispatched # <<>>
  /\ obs.dispatched[1] = UrlRoot

\* The resume set of the run.
ResumeSet ==
  IF obs.restart THEN load_processed_urls_from_log(obs.log) ELSE {}

\* C25: in a restart run the resume set stays in the Visited Set and none of
\* its URLs is fetched; when the seed is in it, nothing is fetched and no Page
\* Record is appended.
C25_ResumeSetNeverFetched ==
  (obs.restart /\ pc \in {"loop", "render", "done", "crashed"}) =>
    /\ ResumeSet \subseteq visited_urls
    /\ Dispatched \cap ResumeSet = {}
    /\ BASE_URL \in ResumeSet =>
         (obs.dispatched = <<>> /\ discovered_pages_for_llms_txt = <<>>)

C25_Witness ==
  /\ pc = "done"
  /\ obs.restart
  /\ BASE_URL \in ResumeSet
  /\ queue = <<>>
  /\ Cardinality(visited_urls) < MAX_PAGES
  /\ obs.dispatched = <<>>

\* C27: a link is appended to the Frontier only while |Visited| + |Frontier|
\* is strictly below 1.5 x MAX_PAGES, and in a fresh run with MAX_PAGES >= 1
\* |Visited| + |Frontier| never exceeds ceil(1.5 x MAX_PAGES).
C27_FrontierCap ==
  /\ [][(pc = "loop" /\ pc' = "loop" /\ Len(queue') >= Len(queue))
          => (2 * (Cardinality(visited_urls') + Len(queue') - 1) < 3 * MAX_PAGES)]_vars
  /\ []((~obs.restart /\ MAX_PAGES >= 1)
          => (Cardinality(visited_urls) + Len(queue) <= (3 * MAX_PAGES + 1) \div 2))

C27_Witness ==
  /\ pc = "done"
  /\ ~obs.restart
  /\ MAX_PAGES = 1
  /\ Cardinality(obs.last_links) = 2
  /\ Len(queue) = 1
  /\ Cardinality(visited_urls) + Len(queue) = 2

\* C28 as claimed: the Frontier contains no URL twice and no Frontier entry
\* is a member of the Visited Set.
C28_FrontierDistinctUnvisited ==
  /\ \A i, j \in 1..Len(queue) : queue[i] = queue[j] => i = j
  /\ \A i \in 1..Len(queue) : queue[i] \notin visited_urls

\* C28 as amended: the Frontier contains no URL twice, and the only Frontier
\* entry that can be in the Visited Set is the seed of a restart run whose
\* resume set contains it, at the head of the Frontier until it is popped.
C28_FrontierDistinctUnvisitedButSeed ==
  /\ \A i, j \in 1..Len(queue) : queue[i] = queue[j] => i = j
  /\ \A i \in 1..Len(queue) :
       queue[i] \in visited_urls =>
         (obs.restart /\ i = 1 /\ queue[i] = BASE_URL /\ BASE_URL \in ResumeSet)

C28_Witness ==
  /\ pc = "loop"
  /\ obs.restart
  /\ ResumeSet # {}
  /\ Len(queue) >= 2
  /\ Len(obs.dispatched) >= 2

\* C26: a run started with --restart reads the log the previous run wrote,
\* finds its success lines, and fetches none of the URLs the previous run
\* logged as successfully fetched.
C26_RestartSkipsLoggedPages ==
  /\ (pc \in {"main", "loop", "render", "done"}) => LOG_FILE = log_handler
  /\ (obs.restart /\ pc \in {"loop", "render", "done", "crashed"}) =>
       /\ obs.prev_success \subseteq ResumeSet
       /\ Dispatched \cap obs.prev_success = {}

\* C29: a run that fails on a configuration error has read no robots
\* document and fetched no page.
C29_ConfigErrorsFatalAtStartup ==
  (pc \in {"fatal", "render_failed"}) =>
    /\ obs.dispatched = <<>>
    /\ \A h \in Hosts : obs.robots_reads[h] = 0

\* C30: each index entry links to the record's alternate URL if present, else
\* to the page URL, and is labelled Markdown exactly when the record's content
\* came from the alternate and HTML exactly when it was extracted from HTML.
C30_IndexAnnotatedWithSourceKind ==
  (pc = "done") =>
    /\ Len(obs.index) = Len(Pages)
    /\ \A i \in 1..Len(Pages) :
         /\ obs.index[i].link = IF Pages[i].md_url # NoUrl THEN Pages[i].md_url
                                                           ELSE Pages[i].html_url
         /\ obs.index[i].description = "Markdown version link"
              <=> Pages[i].content_source_type = "md"
         /\ obs.index[i].description = "HTML page link"
              <=> Pages[i].content_source_type = "html"

\* C31: check_for_md_version probes one candidate, the page path with
\* "index.html.md" added when it ends in "/" and with ".md" added otherwise,
\* and returns that candidate when the probe answers 200 and None on every
\* other status and on a request exception.
C31_MdCandidateOnlyWhenFound ==
  obs.md.called =>
    /\ obs.md.url = UrlRoot  => obs.md.requested = Url("d", <<"index.html.md">>, FALSE, FALSE)
    /\ obs.md.url = UrlDir   => obs.md.requested = Url("d", <<"s", "index.html.md">>, FALSE, FALSE)
    /\ obs.md.url = UrlA     => obs.md.requested = Url("d", <<"a.md">>, FALSE, FALSE)
    /\ obs.md.url = UrlAQ    => obs.md.requested = Url("d", <<"a.md">>, FALSE, TRUE)
    /\ obs.md.url = UrlIndex => obs.md.requested = Url("d", <<"index.html.md">>, FALSE, FALSE)
    /\ obs.md.url = UrlBare  => obs.md.requested = Url("d", <<".md">>, FALSE, FALSE)
    /\ obs.md.probe = "200" => obs.md.ret = obs.md.requested
    /\ obs.md.probe # "200" => obs.md.ret = NoUrl

C31_Witness ==
  /\ obs.md.called
  /\ obs.md.url = UrlDir
  /\ obs.md.probe = "200"
  /\ obs.md.requested = Url("d", <<"s", "index.html.md">>, FALSE, FALSE)
  /\ obs.md.ret = obs.md.requested

\* C32: normalizing what normalize_url returned gives it back unchanged, for
\* URLs with and without scheme and host, and no result carries a query or a
\* fragment.
C32_NormalizeIdempotent ==
  obs.nu.called =>
    /\ ~obs.nu.ret.qf
    /\ obs.nu.again => obs.nu.ret = obs.nu.url

\* C33: normalize_url gives the host in lower case and the path as written,
\* so URLs that differ in the letter case of the host have one normal form.
C33_HostLowercased ==
  (obs.nu.called /\ obs.nu.url.host \in {"d", "D"}) =>
    /\ obs.nu.ret.host = "d"
    /\ obs.nu.ret.segs = obs.nu.url.segs
    /\ obs.nu.url \in {UrlUpper, UrlUpperQ, UrlLower} => obs.nu.ret = UrlLower

\* C34: a URL the robots policy denied in this run is not in the Frontier
\* again afterwards, so it is neither popped nor checked a second time.
C34_DeniedNotReconsidered ==
  \A u \in obs.denied : u \notin Range(queue)

\* The list of Page Records after a step of a run is the list before it, or
\* that list with one record appended.
RecordsOnlyAppended ==
  (pc = "loop") =>
    \/ Pages' = Pages
    \/ /\ Len(Pages') = Len(Pages) + 1
       /\ SubSeq(Pages', 1, Len(Pages)) = Pages

\* C35: the Page Records are exactly one per page fetched with success in
\* this run, their count is the processed-page counter and at most the page
\* budget, their page URLs are pairwise distinct members of the Visited Set,
\* and a step of the run only appends to the list.
C35_OneRecordPerFetchedPage ==
  /\ [](/\ Len(Pages) = processed_pages_count
        /\ Len(Pages) <= MAX_PAGES
        /\ \A i, j \in 1..Len(Pages) : Pages[i].html_url = Pages[j].html_url => i = j
        /\ \A i \in 1..Len(Pages) : Pages[i].html_url \in visited_urls
        /\ {Pages[i].html_url : i \in 1..Len(Pages)} = obs.success)
  /\ [][RecordsOnlyAppended]_vars

\* A step of the run takes URLs only from the front of the Frontier and adds
\* URLs only at its end.
FrontOutEndIn ==
  (pc = "loop" /\ queue' # queue) =>
    /\ queue # <<>>
    /\ Len(queue') >= Len(queue) - 1
    /\ SubSeq(queue', 1, Len(queue) - 1) = Tail(queue)

\* The URLs of the Page Records, in the order of the records.
RecordUrls == [i \in 1..Len(Pages) |-> Pages[i].html_url]

\* C36: URLs leave the Frontier in the order they entered it, the Page
\* Records are in the order their pages were dispatched, and the seed, when
\* dispatched, is the first dispatched.
C36_FrontierFifo ==
  /\ [][FrontOutEndIn]_vars
  /\ [](RecordUrls = SelectSeq(obs.dispatched, LAMBDA u : u \in Range(RecordUrls)))
  /\ [](BASE_URL \in Range(obs.dispatched) => obs.dispatched[1] = BASE_URL)

C36_Witness ==
  /\ Len(Pages) = 3
  /\ Len(obs.dispatched) = 3
  /\ RecordUrls = <<UrlRoot, UrlB, UrlA>>
  /\ queue # <<>>

\* C37: with the adjacent guard disabled, a link of more than five segments
\* that the other rules let through is returned unless its last three
\* segments are identical and the repeated segment makes up more than half of
\* the segments: /a/b/c/d/d/d (3 of 6) and /a/b/c/x/y/z/z/z (3 of 8) are
\* returned.
C37_HeuristicForLongPaths ==
  (obs.el.called /\ ~SKIP_ADJACENT_REPETITIVE_PATHS) =>
    \A a \in obs.el.anchors :
      (/\ Len(a.segs) > 5
       /\ ~a.qf
       /\ PatternMatch(URL_PATTERN, a)
       /\ a \notin visited_urls
       /\ ~TooLong(a)
       /\ ~Excluded(EXCLUDED_URLS, a)) =>
        /\ a \in obs.el.ret <=> ~RepetitiveTail(a)
        /\ a \in {UrlD6, UrlZ8} => a \in obs.el.ret
        /\ a = UrlC6 => a \notin obs.el.ret

C37_Witness ==
  /\ obs.el.called
  /\ ~SKIP_ADJACENT_REPETITIVE_PATHS
  /\ obs.el.anchors = {UrlD6, UrlC6}
  /\ obs.el.ret = {UrlD6}

\* C38: the step that starts crawl() leaves the Visited Set empty (the
\* resume set in restart mode), the Frontier holding the seed only and the
\* Page Record list empty, and does not change the Permission Cache; a domain
\* whose policy is cached is not read again, in that call or the next.
C38_StartResetsRunKeepsCache ==
  [][/\ (obs'.runs = obs.runs + 1) =>
         /\ robot_rules' = robot_rules
         /\ queue' = <<BASE_URL>>
         /\ discovered_pages_for_llms_txt' = <<>>
         /\ processed_pages_count' = 0
         /\ ~obs'.restart => visited_urls' = {}
         /\ (obs'.restart /\ ~obs'.log.exists) => visited_urls' = {}
         /\ (obs'.restart /\ obs'.log.exists) =>
              visited_urls' = {obs'.log.lines[1].url}
     /\ \A h \in Hosts :
          obs'.robots_reads[h] > obs.robots_reads[h] => h \notin DOMAIN robot_rules
    ]_vars

C38_Witness ==
  /\ obs.runs = 2
  /\ pc = "done"
  /\ obs.restart
  /\ obs.log.exists
  /\ visited_urls = {UrlA, UrlRoot}
  /\ obs.dispatched = <<UrlRoot>>
  /\ Len(discovered_pages_for_llms_txt) = 1
  /\ obs.robots_reads["d"] = 1

\* The URLs that entered the Frontier in this run: those still in it and
\* those popped from it (dispatched or denied).
Entered == Range(queue) \cup Range(obs.dispatched) \cup obs.denied

\* C39: every URL in the Frontier or dispatched, the seed apart, has no query
\* or fragment, is in scope, is at most MAX_URL_LENGTH long and matches no
\* exclusion glob.
C39_FrontierUrlsFiltered ==
  \A u \in Entered \ {BASE_URL} :
    /\ ~u.qf
    /\ normalize_url(u) = u
    /\ u.host \in URL_PATTERN
    /\ UrlLen(u) <= MAX_URL_LENGTH
    /\ \A i \in 1..Len(EXCLUDED_URLS) : ~GlobMatch(u, EXCLUDED_URLS[i])

C39_Witness ==
  /\ UrlLen(UrlMax) = MAX_URL_LENGTH
  /\ EXCLUDED_URLS = <<"*/b">>
  /\ URL_PATTERN = {"d"}
  /\ obs.dispatched = <<UrlRoot, UrlMax, UrlA>>

\* C40: every request of the crawl for page content (page fetch, probe of
\* the alternate, fetch of the alternate) goes to a URL the cached robots
\* policy of its domain permits.
C40_RequestsPermitted ==
  \A r \in obs.requests :
    /\ r.url.host \in DOMAIN robot_rules
    /\ can_fetch(robot_rules[r.url.host], r.url)

====
